---- MODULE Spec2Model ----
(***************************************************************************)
(* Model of lhlo_legalize_to_parallel_loops.cc: the lowering of            *)
(* xla_lhlo.reduce and xla_lhlo.reduce_window to nested loop.parallel ops  *)
(* with a loop.reduce, the execution of the emitted loop nests, and the    *)
(* pass driver.                                                            *)
(***************************************************************************)
EXTENDS Integers, Sequences, FiniteSets, TLC

VARIABLES
  xop,          \* the xla_lhlo operation handed to matchAndRewrite
  rt,           \* run-time buffers: extents, operand contents, init value
  nest,         \* the IR emitted by matchAndRewrite for xop
  pc,           \* position of the execution of the emitted nest
  outer_done,   \* outer-loop iterations already executed
  cur_outer,    \* induction variables of the running outer iteration
  inner_done,   \* inner-loop iterations already executed in cur_outer
  acc,          \* running accumulator of the inner loop
  out_buf,      \* output buffer: index tuple -> last value stored
  store_count,  \* output buffer: index tuple -> number of stores
  loads,        \* operand index tuples loaded so far
  fed,          \* window iteration -> what it handed to loop.reduce
  bst,          \* reduction block being run: its cells, loaded and yielded value
  bpc,          \* next operation of the reduction block being run
  func,         \* operations of the function the pass runs on
  func0,        \* the function as it was before the pass
  driver,       \* state of the conversion driver
  cur,          \* position of the operation the driver is looking at
  diags,        \* diagnostics emitted so far
  pass_failed   \* signalPassFailure() was called

vars == <<xop, rt, nest, pc, outer_done, cur_outer, inner_done, acc, out_buf,
          store_count, loads, fed, bst, bpc,
          func, func0, driver, cur, diags, pass_failed>>

loopVars == <<xop, rt, nest, pc, outer_done, cur_outer, inner_done, acc,
              out_buf, store_count, loads, fed>>
blockVars == <<bst, bpc>>
driverVars == <<func, func0, driver, cur, diags, pass_failed>>

----------------------------------------------------------------------------
(* Bounds of the model *)
MaxRank == 3
MaxExtent == 2
MaxElems == 4
MaxVal == 1
MaxBodyLen == 2
MaxOps == 3
MaxWindowRank == 2
MaxStride == 2
MaxPad == 1
MaxDims == 2

(* ShapedType::kDynamicSize *)
kDynamicSize == -1

(* Width of the index type in bits, and its modulus *)
IndexWidth == 5
IndexMod == 2 ^ IndexWidth

(* Width of int in bits, and its modulus: the element type of             *)
(* DenseSet<int> reducing_dims, narrower than the int64_t entries of the  *)
(* dimensions attribute                                                    *)
IntWidth == 4
IntMod == 2 ^ IntWidth

(* the conversion of an int64_t to int *)
IntCast(x) == LET m == x % IntMod
              IN IF m >= IntMod \div 2 THEN m - IntMod ELSE m

(* the empty key and the tombstone key of DenseSet<int>: the largest and  *)
(* the smallest int, which the container's users must not insert          *)
DenseSetReservedKeys == { IntMod \div 2 - 1, -(IntMod \div 2) }

Values == 0 .. MaxVal

Max2(a, b) == IF a >= b THEN a ELSE b

----------------------------------------------------------------------------
(* IR values: constants, run-time dimension queries, induction variables *)
ConstantIndexOp(n) == [k |-> "const", buf |-> "", v |-> n]
DimOp(shaped_value, dim_index) == [k |-> "dim", buf |-> shaped_value, v |-> dim_index]
OuterIv(p) == [k |-> "outer_iv", buf |-> "", v |-> p]
InnerIv(p) == [k |-> "inner_iv", buf |-> "", v |-> p]
InvalidValue == [k |-> "invalid", buf |-> "", v |-> 0]

GetStaticOrDynamicDim(shaped_value, dim_index, dim) ==
  IF dim = kDynamicSize THEN DimOp(shaped_value, dim_index)
                        ELSE ConstantIndexOp(dim)

----------------------------------------------------------------------------
(* Reduction bodies.  An LHLO body is a sequence of operations over the    *)
(* three block arguments 0 (element), 1 (accumulator-in), 2 (result-out):  *)
(* [op, x, y, z] reads arguments x and y and writes argument z.            *)
LhloOpKinds == {"add", "max"}
LhloInstrs == [op : LhloOpKinds, x : 0 .. 2, y : 0 .. 2, z : 0 .. 2]

SumBody == << [op |-> "add", x |-> 0, y |-> 1, z |-> 2] >>
MaxBody == << [op |-> "max", x |-> 0, y |-> 1, z |-> 2] >>

(* Cells allocated by ConvertToReductionOperator *)
elem_buf == 0
acc_buf == 1

(* result-out mapped to a cell of its own *)
BlockArgMapping_fresh == << elem_buf, acc_buf, acc_buf + 1 >>

(* BlockAndValueMapping of the body's arguments *)
BlockArgMapping == << elem_buf, acc_buf, acc_buf >>

CloneOp(nested, mapping) ==
  [op |-> nested.op, x |-> mapping[nested.x + 1], y |-> mapping[nested.y + 1],
   z |-> mapping[nested.z + 1]]

(* the first block argument stored into both cells *)
ConvertToReductionOperator_arg0(lhlo_block) ==
  << [op |-> "alloc", x |-> 0, y |-> 0, z |-> elem_buf],
     [op |-> "store", x |-> 0, y |-> 0, z |-> elem_buf],
     [op |-> "alloc", x |-> 0, y |-> 0, z |-> acc_buf],
     [op |-> "store", x |-> 0, y |-> 0, z |-> acc_buf] >>
  \o [i \in 1 .. Len(lhlo_block) |-> CloneOp(lhlo_block[i], BlockArgMapping)]
  \o << [op |-> "load", x |-> acc_buf, y |-> 0, z |-> 0],
        [op |-> "return", x |-> 0, y |-> 0, z |-> 0] >>

ConvertToReductionOperator(lhlo_block) ==
  << [op |-> "alloc", x |-> 0, y |-> 0, z |-> elem_buf],
     [op |-> "store", x |-> 0, y |-> 0, z |-> elem_buf],
     [op |-> "alloc", x |-> 0, y |-> 0, z |-> acc_buf],
     [op |-> "store", x |-> 1, y |-> 0, z |-> acc_buf] >>
  \o [i \in 1 .. Len(lhlo_block) |-> CloneOp(lhlo_block[i], BlockArgMapping)]
  \o << [op |-> "load", x |-> acc_buf, y |-> 0, z |-> 0],
        [op |-> "return", x |-> 0, y |-> 0, z |-> 0] >>

(* Execution of one operation of a reduction block.  st is               *)
(* [cells, loaded, ret, done]; args are the block's two bare arguments.   *)
Uninit == -1
NoCells == [c \in {} |-> 0]
BlockStart == [cells |-> NoCells, loaded |-> Uninit, ret |-> Uninit, done |-> FALSE]

(* a cell that was never written holds no defined value *)
CellRead(cs, c) == IF c \in DOMAIN cs THEN cs[c] ELSE Uninit

CellWrite(cs, c, v) == [d \in DOMAIN cs \cup {c} |-> IF d = c THEN v ELSE cs[d]]

ApplyLhlo(op, a, b) == IF op = "add" THEN a + b ELSE Max2(a, b)

ExecBlockOp(st, o, args) ==
  CASE o.op = "alloc"  -> [st EXCEPT !.cells = CellWrite(st.cells, o.z, Uninit)]
    [] o.op = "store"  -> [st EXCEPT !.cells = CellWrite(st.cells, o.z, args[o.x + 1])]
    [] o.op = "load"   -> [st EXCEPT !.loaded = CellRead(st.cells, o.x)]
    [] o.op = "return" -> [st EXCEPT !.ret = st.loaded, !.done = TRUE]
    [] OTHER           -> [st EXCEPT !.cells =
                             CellWrite(st.cells, o.z,
                                       ApplyLhlo(o.op, CellRead(st.cells, o.x),
                                                 CellRead(st.cells, o.y)))]

RECURSIVE RunBlockFrom(_, _, _, _)
RunBlockFrom(block, i, st, args) ==
  IF i > Len(block) THEN st
  ELSE RunBlockFrom(block, i + 1, ExecBlockOp(st, block[i], args), args)

(* loop.reduce: the block is entered with (element, accumulator) *)
ReduceOp(block, elem, accumulator) ==
  RunBlockFrom(block, 1, BlockStart, << elem, accumulator >>).ret

----------------------------------------------------------------------------
(* ReduceOpConverter *)

ReducingDims(dimensions) == { IntCast(dimensions[i]) : i \in 1 .. Len(dimensions) }

(* the axis tested one off *)
IsReducingDim_shifted(reducing_dims, index) == (index + 1) \in reducing_dims

IsReducingDim(reducing_dims, index) == index \in reducing_dims

NoBounds == [parallel_lower |-> <<>>, parallel_upper |-> <<>>, parallel_step |-> <<>>,
             reduce_lower |-> <<>>, reduce_upper |-> <<>>, reduce_step |-> <<>>]

(* the loop over llvm::enumerate(operand_shape) *)
RECURSIVE PartitionDims(_, _, _, _)
PartitionDims(operand_shape, reducing_dims, i, b) ==
  IF i >= Len(operand_shape) THEN b
  ELSE LET ub == GetStaticOrDynamicDim("operand", i, operand_shape[i + 1])
           lb == ConstantIndexOp(0)
           step == ConstantIndexOp(1)
       IN IF IsReducingDim(reducing_dims, i)
          THEN PartitionDims(operand_shape, reducing_dims, i + 1,
                 [b EXCEPT !.reduce_lower = Append(@, lb),
                           !.reduce_upper = Append(@, ub),
                           !.reduce_step = Append(@, step)])
          ELSE PartitionDims(operand_shape, reducing_dims, i + 1,
                 [b EXCEPT !.parallel_lower = Append(@, lb),
                           !.parallel_upper = Append(@, ub),
                           !.parallel_step = Append(@, step)])

(* the outer loop created unconditionally *)
OuterNeeded_always(parallel_lower) == TRUE

(* Outer ParallelOp is created only if there is a parallel dimension *)
OuterNeeded(parallel_lower) == parallel_lower # <<>>

OutIndices(has_outer, num_loops) ==
  IF has_outer THEN [p \in 1 .. num_loops |-> OuterIv(p - 1)]
               ELSE << ConstantIndexOp(0) >>

(* *it++ on an induction-variable range of n values, cursor at pos *)
DerefIv(has_loop, n, pos, iv) == IF has_loop /\ pos < n THEN iv ELSE InvalidValue

(* the loop that rebuilds the operand indices from the two cursors *)
RECURSIVE ReconstructIndices(_, _, _, _, _, _, _, _)
ReconstructIndices(e, reducing_dims, has_outer, n_outer, n_inner, i, cursors, indices) ==
  IF i >= e THEN [indices |-> indices, outer_it |-> cursors[1], inner_it |-> cursors[2]]
  ELSE IF IsReducingDim(reducing_dims, i)
       THEN ReconstructIndices(e, reducing_dims, has_outer, n_outer, n_inner, i + 1,
              << cursors[1], cursors[2] + 1 >>,
              Append(indices, DerefIv(TRUE, n_inner, cursors[2], InnerIv(cursors[2]))))
       ELSE ReconstructIndices(e, reducing_dims, has_outer, n_outer, n_inner, i + 1,
              << cursors[1] + 1, cursors[2] >>,
              Append(indices, DerefIv(has_outer, n_outer, cursors[1], OuterIv(cursors[1]))))

NoNest == [kind |-> "none"]

ReduceOpConverter_CreateReduceOpInNestedParallelLoops(xla_reduce_op) ==
  LET reducing_dims == ReducingDims(xla_reduce_op.dimensions)
      operand_shape == xla_reduce_op.operand_shape
      b == PartitionDims(operand_shape, reducing_dims, 0, NoBounds)
      has_outer == OuterNeeded(b.parallel_lower)
      rec == ReconstructIndices(Len(operand_shape), reducing_dims, has_outer,
                                Len(b.parallel_lower), Len(b.reduce_lower), 0,
                                << 0, 0 >>, <<>>)
  IN [kind |-> "reduce",
      has_outer |-> has_outer,
      outer_lower |-> b.parallel_lower, outer_upper |-> b.parallel_upper,
      outer_step |-> b.parallel_step,
      inner_lower |-> b.reduce_lower, inner_upper |-> b.reduce_upper,
      inner_step |-> b.reduce_step,
      out_indices |-> OutIndices(has_outer, Len(b.parallel_lower)),
      indices |-> rec.indices,
      outer_it |-> rec.outer_it, inner_it |-> rec.inner_it,
      reduction_operator |-> <<>>]

(* the check of the number of outputs left out *)
ReduceOpSupported_any(xla_reduce_op) == TRUE

(* matchAndRewrite: [status, ir, replaced, errors] *)
ReduceOpSupported(xla_reduce_op) == xla_reduce_op.num_out = 1

ReduceOpConverter_matchAndRewrite(xla_reduce_op) ==
  IF ~ReduceOpSupported(xla_reduce_op)
  THEN [status |-> "failure", ir |-> NoNest, replaced |-> FALSE, errors |-> {}]
  ELSE [status |-> "success",
        ir |-> [ReduceOpConverter_CreateReduceOpInNestedParallelLoops(xla_reduce_op)
                  EXCEPT !.reduction_operator =
                           ConvertToReductionOperator(xla_reduce_op.body)],
        replaced |-> TRUE, errors |-> {}]

----------------------------------------------------------------------------
(* ReduceWindowOpConverter *)

(* Optional<>::getValue(): reading an attribute that is absent is         *)
(* undefined; the read may abort the process or yield any value.          *)
AttrGetValue(has_value, value, garbage) ==
  IF has_value THEN { [crashed |-> FALSE, v |-> value] }
  ELSE { [crashed |-> TRUE, v |-> << >>] }
       \cup { [crashed |-> FALSE, v |-> g] : g \in garbage }

(* the signed comparison in place of the unsigned one *)
InBoundsPredicate_slt == "slt"

(* in_bounds is the conjunction of CmpIOp(pred, index, upper_bound) *)
InBoundsPredicate == "ult"

(* the operand index of axis i and its bound *)
IndexComputation(xla_reduce_window_op, window_strides, padding, i) ==
  [stride_val |-> ConstantIndexOp(window_strides[i + 1]),
   pad_low_val |-> ConstantIndexOp(padding[i + 1][1]),
   output_iv |-> OuterIv(i),
   window_iv |-> InnerIv(i),
   upper_bound |-> GetStaticOrDynamicDim("operand", i,
                                         xla_reduce_window_op.operand_shape[i + 1]),
   pred |-> InBoundsPredicate]

(* the window loop one iteration short *)
WindowUpper_short(window_dim) == ConstantIndexOp(window_dim - 1)

WindowUpper(window_dim) == ConstantIndexOp(window_dim)

ReduceWindowOpConverter_CreateParallelLoopsToTraverseOutputAndWindow(xla_reduce_window_op) ==
  LET zero == ConstantIndexOp(0)
      one == ConstantIndexOp(1)
      output_shape == xla_reduce_window_op.out_shape
      window_dimensions == xla_reduce_window_op.window_dimensions
  IN [kind |-> "reduce_window",
      has_outer |-> TRUE,
      outer_lower |-> [i \in 1 .. Len(output_shape) |-> zero],
      outer_upper |-> [i \in 1 .. Len(output_shape) |->
                         GetStaticOrDynamicDim("out", i - 1, output_shape[i])],
      outer_step |-> [i \in 1 .. Len(output_shape) |-> one],
      inner_lower |-> [i \in 1 .. Len(window_dimensions) |-> zero],
      inner_upper |-> [i \in 1 .. Len(window_dimensions) |->
                         WindowUpper(window_dimensions[i])],
      inner_step |-> [i \in 1 .. Len(window_dimensions) |-> one],
      out_indices |-> [i \in 1 .. Len(output_shape) |-> OuterIv(i - 1)],
      operand_indices |-> <<>>,
      else_yields |-> "none",
      reduction_operator |-> <<>>]

(* the diagnostics emitted before the attributes are read *)
WindowDiagnostics(xla_reduce_window_op) ==
  (IF ~xla_reduce_window_op.has_window_strides
   THEN { [severity |-> "error", msg |-> "No window strides specified."] } ELSE {})
  \cup
  (IF ~xla_reduce_window_op.has_padding
   THEN { [severity |-> "error", msg |-> "No padding specified."] } ELSE {})
  \cup
  (IF xla_reduce_window_op.has_dilations
   THEN { [severity |-> "remark", msg |-> "dilations ignored"] } ELSE {})

ReduceWindowOpConverter_CreateReduceOpInNestedParallelLoops(xla_reduce_window_op, loops, window_strides, padding) ==
  [loops EXCEPT
     !.operand_indices =
        [i \in 1 .. Len(loops.outer_upper) |->
           IndexComputation(xla_reduce_window_op, window_strides, padding, i - 1)],
     !.else_yields = "init"]

(* values an absent attribute may be read as *)
GarbageStrides(rank) == { [i \in 1 .. rank |-> g] : g \in 1 .. MaxStride }
GarbagePadding(rank) == { [i \in 1 .. rank |-> << g, 0 >>] : g \in 0 .. MaxPad }

(* matchAndRewrite: the set of its possible outcomes *)
ReduceWindowOpConverter_matchAndRewrite(xla_reduce_window_op) ==
  LET loops ==
        ReduceWindowOpConverter_CreateParallelLoopsToTraverseOutputAndWindow(
          xla_reduce_window_op)
      rank == Len(loops.outer_upper)
      errors == WindowDiagnostics(xla_reduce_window_op)
      strides_read == AttrGetValue(xla_reduce_window_op.has_window_strides,
                                   xla_reduce_window_op.window_strides,
                                   GarbageStrides(rank))
      padding_read == AttrGetValue(xla_reduce_window_op.has_padding,
                                   xla_reduce_window_op.padding,
                                   GarbagePadding(rank))
  IN { IF window_strides.crashed \/ padding.crashed
       THEN [status |-> "crash", ir |-> NoNest, replaced |-> FALSE, errors |-> errors]
       ELSE [status |-> "success",
             ir |-> [ReduceWindowOpConverter_CreateReduceOpInNestedParallelLoops(
                       xla_reduce_window_op, loops, window_strides.v, padding.v)
                     EXCEPT !.reduction_operator =
                              ConvertToReductionOperator(xla_reduce_window_op.body)],
             replaced |-> TRUE, errors |-> errors]
       : window_strides \in strides_read, padding \in padding_read }

----------------------------------------------------------------------------
(* Execution of the emitted loops.  A loop.parallel runs its iterations   *)
(* in any order; the iteration space is the product of the ranges         *)
(* lower, lower + step, ... below upper.                                   *)

Product(s) == LET RECURSIVE P(_)
                  P(i) == IF i > Len(s) THEN 1 ELSE s[i] * P(i + 1)
              IN P(1)

EvalBound(v) ==
  CASE v.k = "const" -> v.v
    [] v.k = "dim" -> IF v.buf = "operand" THEN rt.extents[v.v + 1]
                                            ELSE rt.out_extents[v.v + 1]
    [] OTHER -> 0

Range(lb, ub, step) == { x \in lb .. (ub - 1) : (x - lb) % step = 0 }

IterSpace(lower, upper, step) ==
  { s \in [1 .. Len(upper) -> 0 .. MaxExtent] :
      \A i \in 1 .. Len(upper) :
        s[i] \in Range(EvalBound(lower[i]), EvalBound(upper[i]), EvalBound(step[i])) }

(* without an outer loop the nest body runs once, with no induction variable *)
OuterSpace == IF nest.has_outer
              THEN IterSpace(nest.outer_lower, nest.outer_upper, nest.outer_step)
              ELSE { <<>> }

InnerSpace == IterSpace(nest.inner_lower, nest.inner_upper, nest.inner_step)

EvalIndex(v, outer_ivs, inner_ivs) ==
  CASE v.k = "const" -> v.v
    [] v.k = "outer_iv" -> outer_ivs[v.v + 1]
    [] v.k = "inner_iv" -> inner_ivs[v.v + 1]
    [] OTHER -> -1

EvalIndices(vs, outer_ivs, inner_ivs) ==
  [i \in 1 .. Len(vs) |-> EvalIndex(vs[i], outer_ivs, inner_ivs)]

Coords(extents) ==
  { s \in [1 .. Len(extents) -> 0 .. MaxExtent] :
      \A i \in 1 .. Len(extents) : s[i] < extents[i] }

NoFed == [c \in {} |-> 0]

(* a load outside the buffer is undefined: it may yield any value *)
LoadOp(buffer, index) ==
  IF index \in DOMAIN buffer THEN { buffer[index] } ELSE Values
NoBuf == [c \in {} |-> 0]

(* rewriter.replaceOp / failure of the pattern applied to xop *)
Rewrite(result) ==
  /\ pc = "ir"
  /\ nest' = result.ir
  /\ pc' = IF result.status = "success" THEN "outer" ELSE "declined"
  /\ UNCHANGED <<xop, rt, outer_done, cur_outer, inner_done, acc, out_buf,
                 store_count, loads, fed>>

RewriteReduce ==
  /\ xop.kind = "reduce"
  /\ Rewrite(ReduceOpConverter_matchAndRewrite(xop))
  /\ UNCHANGED <<blockVars, driverVars>>

(* an iteration of the outer loop starts the inner loop on the init value *)
OuterBegin ==
  /\ pc = "outer"
  /\ \E o \in OuterSpace \ outer_done :
       /\ cur_outer' = o
       /\ acc' = rt.init
       /\ inner_done' = {}
       /\ fed' = NoFed
       /\ pc' = "inner"
  /\ UNCHANGED <<xop, rt, nest, outer_done, out_buf, store_count, loads>>
  /\ UNCHANGED <<blockVars, driverVars>>

(* an iteration of the inner loop of a lowered xla_lhlo.reduce *)
ReduceInnerStep ==
  /\ pc = "inner"
  /\ nest.kind = "reduce"
  /\ \E w \in InnerSpace \ inner_done :
       LET index == EvalIndices(nest.indices, cur_outer, w)
       IN \E elem \in LoadOp(rt.operand, index) :
            /\ loads' = loads \cup { index }
            /\ acc' = ReduceOp(nest.reduction_operator, elem, acc)
            /\ inner_done' = inner_done \cup { w }
  /\ UNCHANGED <<xop, rt, nest, pc, outer_done, cur_outer, out_buf, store_count, fed>>
  /\ UNCHANGED <<blockVars, driverVars>>

(* the store of the inner loop's result that follows the inner loop *)
StoreResult ==
  /\ pc = "inner"
  /\ inner_done = InnerSpace
  /\ LET idx == EvalIndices(nest.out_indices, cur_outer, <<>>)
     IN /\ out_buf' = [c \in DOMAIN out_buf \cup { idx } |->
                          IF c = idx THEN acc ELSE out_buf[c]]
        /\ store_count' = [c \in DOMAIN store_count \cup { idx } |->
                          IF c = idx
                          THEN (IF c \in DOMAIN store_count THEN store_count[c] ELSE 0) + 1
                          ELSE store_count[c]]
  /\ outer_done' = outer_done \cup { cur_outer }
  /\ pc' = "outer"
  /\ UNCHANGED <<xop, rt, nest, cur_outer, inner_done, acc, loads, fed>>
  /\ UNCHANGED <<blockVars, driverVars>>

Finish ==
  /\ pc = "outer"
  /\ outer_done = OuterSpace
  /\ pc' = "done"
  /\ UNCHANGED <<xop, rt, nest, outer_done, cur_outer, inner_done, acc, out_buf,
                 store_count, loads, fed>>
  /\ UNCHANGED <<blockVars, driverVars>>

----------------------------------------------------------------------------
(* Execution of the inner loop of a lowered xla_lhlo.reduce_window *)

(* arithmetic of the index type *)
Wrap(x) == x % IndexMod
MulIOp(a, b) == Wrap(a * b)
SubIOp(a, b) == Wrap(a - b)
AddIOp(a, b) == Wrap(a + b)
Signed(x) == IF x >= IndexMod \div 2 THEN x - IndexMod ELSE x

CmpIOp(pred, a, b) ==
  IF pred = "ult" THEN Wrap(a) < Wrap(b) ELSE Signed(Wrap(a)) < Signed(Wrap(b))

(* value of operand_indices[i] for the induction variables o and w *)
OperandIndex(ic, o, w) ==
  LET center == MulIOp(Wrap(EvalIndex(ic.output_iv, o, w)), Wrap(ic.stride_val.v))
      offset == SubIOp(Wrap(EvalIndex(ic.window_iv, o, w)), Wrap(ic.pad_low_val.v))
  IN AddIOp(center, offset)

InBoundsFlag(ics, o, w) ==
  \A i \in 1 .. Len(ics) :
    CmpIOp(ics[i].pred, OperandIndex(ics[i], o, w), EvalBound(ics[i].upper_bound))

(* the load done before the choice, as a select would *)
ElemOrInit_select(in_bounds, index) ==
  { [val |-> IF in_bounds THEN e ELSE rt.init, loaded |-> TRUE,
     in_bounds |-> in_bounds, index |-> index] : e \in LoadOp(rt.operand, index) }

(* loop.if: the then-region loads the operand, the else-region yields init *)
ElemOrInit(in_bounds, index) ==
  IF in_bounds
  THEN { [val |-> e, loaded |-> TRUE, in_bounds |-> TRUE, index |-> index] :
         e \in LoadOp(rt.operand, index) }
  ELSE { [val |-> rt.init, loaded |-> FALSE, in_bounds |-> FALSE, index |-> index] }

WindowInnerStep ==
  /\ pc = "inner"
  /\ nest.kind = "reduce_window"
  /\ \E w \in InnerSpace \ inner_done :
       LET index == [i \in 1 .. Len(nest.operand_indices) |->
                       Signed(OperandIndex(nest.operand_indices[i], cur_outer, w))]
           in_bounds == InBoundsFlag(nest.operand_indices, cur_outer, w)
       IN \E f \in ElemOrInit(in_bounds, index) :
            /\ loads' = IF f.loaded THEN loads \cup { index } ELSE loads
            /\ fed' = [c \in DOMAIN fed \cup { w } |-> IF c = w THEN f ELSE fed[c]]
            /\ acc' = ReduceOp(nest.reduction_operator, f.val, acc)
            /\ inner_done' = inner_done \cup { w }
  /\ UNCHANGED <<xop, rt, nest, pc, outer_done, cur_outer, out_buf, store_count>>
  /\ UNCHANGED <<blockVars, driverVars>>

RewriteWindow ==
  /\ xop.kind = "reduce_window"
  /\ \E result \in ReduceWindowOpConverter_matchAndRewrite(xop) : Rewrite(result)
  /\ UNCHANGED <<blockVars, driverVars>>

----------------------------------------------------------------------------
(* Inputs *)

(* shapes whose loops run at most MaxElems iterations, empty axes included *)
NonEmpty(s) == [i \in 1 .. Len(s) |-> IF s[i] = 0 THEN 1 ELSE s[i]]

Shapes(max_rank) ==
  UNION { { s \in [1 .. r -> 0 .. MaxExtent] : Product(NonEmpty(s)) <= MaxElems } :
          r \in 1 .. max_rank }

(* the static shape of a memref whose axes in dyn are dynamic *)
StaticShape(extents, dyn) ==
  [i \in 1 .. Len(extents) |-> IF dyn THEN kDynamicSize ELSE extents[i]]

(* the dimensions attribute listing the axes of R in increasing order *)
RECURSIVE SeqOfSet(_)
SeqOfSet(S) ==
  IF S = {} THEN <<>>
  ELSE LET m == CHOOSE x \in S : \A y \in S : x <= y
       IN << m >> \o SeqOfSet(S \ { m })

(* operand contents: constant buffers and buffers with one non-zero element *)
Contents(extents) ==
  { f \in [Coords(extents) -> Values] :
      \/ \A c, d \in DOMAIN f : f[c] = f[d]
      \/ Cardinality({ c \in DOMAIN f : f[c] # 0 }) = 1 }

IdleBlock == /\ bst = BlockStart /\ bpc = 0
IdleDriver == /\ func = <<>> /\ func0 = <<>> /\ driver = "idle" /\ cur = 0
              /\ diags = {} /\ pass_failed = FALSE
NoOp == [kind |-> "none"]
NoBuffers == [init |-> 0]
IdleOp == /\ xop = NoOp /\ rt = NoBuffers
IdleLoops == /\ nest = NoNest /\ pc = "ir" /\ outer_done = {} /\ cur_outer = <<>>
             /\ inner_done = {} /\ acc = 0 /\ out_buf = NoBuf /\ store_count = NoBuf
             /\ loads = {} /\ fed = NoFed

InitReduce ==
  /\ \E extents \in Shapes(MaxRank), dyn \in BOOLEAN, body \in { SumBody, MaxBody } :
       \E R \in SUBSET (0 .. Len(extents) - 1) :
         /\ xop = [kind |-> "reduce", num_out |-> 1,
                   operand_shape |-> StaticShape(extents, dyn),
                   dimensions |-> SeqOfSet(R), body |-> body]
         /\ \E operand \in Contents(extents), init \in Values :
              rt = [extents |-> extents, out_extents |-> <<>>,
                    operand |-> operand, init |-> init]
  /\ IdleLoops
  /\ IdleBlock
  /\ IdleDriver

NextReduce ==
  \/ RewriteReduce
  \/ OuterBegin
  \/ ReduceInnerStep
  \/ StoreResult
  \/ Finish

SpecReduce == InitReduce /\ [][NextReduce]_vars

(* window configurations of one rank whose nest runs at most MaxElems     *)
(* window elements                                                         *)
InitWindow ==
  /\ \E extents \in Shapes(MaxWindowRank), dyn \in BOOLEAN, body \in { SumBody, MaxBody } :
       \E out_extents, window \in [1 .. Len(extents) -> 1 .. MaxExtent],
          strides \in [1 .. Len(extents) -> 1 .. MaxStride],
          pad_low \in [1 .. Len(extents) -> 0 .. MaxPad] :
         /\ Product(out_extents) * Product(window) <= MaxElems
         /\ xop = [kind |-> "reduce_window",
                   operand_shape |-> StaticShape(extents, dyn),
                   out_shape |-> StaticShape(out_extents, dyn),
                   window_dimensions |-> window,
                   has_window_strides |-> TRUE, window_strides |-> strides,
                   has_padding |-> TRUE,
                   padding |-> [i \in 1 .. Len(extents) |-> << pad_low[i], 0 >>],
                   has_dilations |-> FALSE,
                   body |-> body]
         /\ \E operand \in Contents(extents), init \in Values :
              rt = [extents |-> extents, out_extents |-> out_extents,
                    operand |-> operand, init |-> init]
  /\ IdleLoops
  /\ IdleBlock
  /\ IdleDriver

NextWindow ==
  \/ RewriteWindow
  \/ OuterBegin
  \/ WindowInnerStep
  \/ StoreResult
  \/ Finish

SpecWindow == InitWindow /\ [][NextWindow]_vars

----------------------------------------------------------------------------
(* What the reductions are to compute, stated over the buffers *)

RECURSIVE SumOver(_, _)
SumOver(S, f) ==
  IF S = {} THEN 0
  ELSE LET c == CHOOSE x \in S : TRUE IN f[c] + SumOver(S \ { c }, f)

MaxOver(S, f, base) ==
  LET vals == { base } \cup { f[c] : c \in S }
  IN CHOOSE m \in vals : \A v \in vals : m >= v

(* the combinator of a body folded over the values f[c], c in S, from seed *)
FoldOver(body, S, f, seed) ==
  IF body = SumBody THEN seed + SumOver(S, f) ELSE MaxOver(S, f, seed)

Axes == 0 .. Len(rt.extents) - 1
ReducedAxes == { a \in Axes : \E i \in 1 .. Len(xop.dimensions) : xop.dimensions[i] = a }
KeptAxes == Axes \ ReducedAxes
KeptSeq == SeqOfSet(KeptAxes)
KeptCoord(c) == [i \in 1 .. Len(KeptSeq) |-> c[KeptSeq[i] + 1]]
KeptExtents == [i \in 1 .. Len(KeptSeq) |-> rt.extents[KeptSeq[i] + 1]]

ExpectedReduce(k) ==
  FoldOver(xop.body, { c \in Coords(rt.extents) : KeptCoord(c) = k }, rt.operand, rt.init)

(* C1: when a plain reduction with one output and at least one kept axis  *)
(* has run, the output holds, at every kept coordinate and nowhere else,  *)
(* the fold of the combinator over the operand elements with that kept    *)
(* coordinate, seeded with the initial value.                             *)
C1_ReduceStoresFold ==
  (xop.kind = "reduce" /\ pc = "done" /\ KeptAxes # {}) =>
    /\ DOMAIN out_buf = Coords(KeptExtents)
    /\ \A k \in DOMAIN out_buf : out_buf[k] = ExpectedReduce(k)

(* shape (2,2,1) reduced along axis 1 with max: output (1,0) holds the    *)
(* maximum of row 1, output (0,0) that of row 0                           *)
C1_Witness ==
  /\ xop.kind = "reduce" /\ pc = "done"
  /\ rt.extents = << 2, 2, 1 >> /\ xop.dimensions = << 1 >> /\ xop.body = MaxBody
  /\ rt.init = 0 /\ rt.operand[<< 1, 1, 0 >>] = 1 /\ rt.operand[<< 0, 0, 0 >>] = 0
  /\ out_buf[<< 1, 0 >>] = 1 /\ out_buf[<< 0, 0 >>] = 0

FullSum1D ==
  /\ xop.kind = "reduce" /\ Len(rt.extents) = 1 /\ xop.dimensions = << 0 >>
  /\ xop.body = SumBody /\ rt.init = 0

(* C2: a 1-D operand fully reduced with the sum combinator from 0: in     *)
(* whatever order the iterations run, the accumulator is the sum of the   *)
(* elements combined so far, and the stored result is the sum of all      *)
(* elements (0 for no element, a0 for one).                               *)
C2_SumAnyOrder ==
  FullSum1D =>
    /\ pc = "inner" => acc = SumOver(inner_done, rt.operand)
    /\ pc = "done" =>
         /\ DOMAIN out_buf = { << 0 >> }
         /\ out_buf[<< 0 >>] = SumOver(Coords(rt.extents), rt.operand)
         /\ rt.extents[1] = 0 => out_buf[<< 0 >>] = 0
         /\ rt.extents[1] = 1 => out_buf[<< 0 >>] = rt.operand[<< 0 >>]

C2_Witness ==
  /\ FullSum1D /\ pc = "done" /\ rt.extents = << 2 >>
  /\ rt.operand[<< 0 >>] = 1 /\ rt.operand[<< 1 >>] = 1 /\ out_buf[<< 0 >>] = 2

(* C3: an outer loop is created exactly when some axis is kept; when the  *)
(* reduction covers every axis the output is stored to once, at the       *)
(* constant index 0, with the inner loop's final accumulator.             *)
C3_FullReduceSingleStore ==
  (xop.kind = "reduce" /\ pc \notin { "ir", "declined" }) =>
    /\ nest.has_outer <=> (KeptAxes # {})
    /\ KeptAxes = {} =>
         /\ nest.out_indices = << ConstantIndexOp(0) >>
         /\ \A c \in DOMAIN store_count : c = << 0 >> /\ store_count[c] = 1
         /\ pc = "done" => /\ store_count = [c \in { << 0 >> } |-> 1]
                           /\ out_buf = [c \in { << 0 >> } |-> acc]
                           /\ inner_done = InnerSpace

C3_Witness ==
  /\ xop.kind = "reduce" /\ pc = "done" /\ rt.extents = << 2, 2 >>
  /\ xop.dimensions = << 0, 1 >> /\ ~nest.has_outer
  /\ store_count[<< 0 >>] = 1

----------------------------------------------------------------------------
(* the operand index of a window element, over the integers *)
WindowAxes == 1 .. Len(rt.extents)
MathIndex(o, w, j) == o[j] * xop.window_strides[j] + w[j] - xop.padding[j][1]
MathInBounds(o, w) ==
  \A j \in WindowAxes : 0 <= MathIndex(o, w, j) /\ MathIndex(o, w, j) < rt.extents[j]

(* C4: for every window element the in-bounds flag, the conjunction of    *)
(* the unsigned tests index <u extent, equals the two-sided predicate     *)
(* 0 <= o*stride + w - pad_low < extent on every axis.                    *)
C4_UnsignedInBounds ==
  (xop.kind = "reduce_window" /\ pc = "inner") =>
    \A w \in DOMAIN fed : fed[w].in_bounds = MathInBounds(cur_outer, w)

(* a window element whose index is -1 and wraps to the largest unsigned value *)
C4_Witness ==
  /\ xop.kind = "reduce_window" /\ pc = "inner"
  /\ \E w \in DOMAIN fed :
       /\ \E j \in WindowAxes :
            /\ MathIndex(cur_outer, w, j) = -1
            /\ OperandIndex(nest.operand_indices[j], cur_outer, w) = IndexMod - 1
       /\ ~fed[w].in_bounds

WindowValue(o) ==
  [w \in Coords(xop.window_dimensions) |->
     IF MathInBounds(o, w)
     THEN rt.operand[[j \in WindowAxes |-> MathIndex(o, w, j)]]
     ELSE rt.init]

ExpectedWindow(o) ==
  FoldOver(xop.body, Coords(xop.window_dimensions), WindowValue(o), rt.init)

(* C6: the outer loop runs over the output shape and the inner loop over  *)
(* the window extents; when the nest has run, every output coordinate has *)
(* been stored to once, with the fold, seeded with the initial value, of  *)
(* the window's elements, the padding counting as the initial value.      *)
C6_WindowFold ==
  (xop.kind = "reduce_window" /\ pc \notin { "ir", "declined" }) =>
    /\ OuterSpace = Coords(rt.out_extents)
    /\ InnerSpace = Coords(xop.window_dimensions)
    /\ pc = "done" =>
         /\ DOMAIN out_buf = Coords(rt.out_extents)
         /\ \A o \in DOMAIN out_buf :
              store_count[o] = 1 /\ out_buf[o] = ExpectedWindow(o)

(* operand (2,2), window (2,2), stride (2,2), no padding, max: the one    *)
(* output is the maximum of the whole operand                             *)
C6_Witness ==
  /\ xop.kind = "reduce_window" /\ pc = "done"
  /\ rt.extents = << 2, 2 >> /\ xop.window_dimensions = << 2, 2 >>
  /\ xop.window_strides = << 2, 2 >> /\ xop.padding = << << 0, 0 >>, << 0, 0 >> >>
  /\ rt.out_extents = << 1, 1 >> /\ xop.body = MaxBody /\ rt.init = 0
  /\ rt.operand[<< 1, 0 >>] = 1 /\ rt.operand[<< 0, 0 >>] = 0
  /\ out_buf[<< 0, 0 >>] = 1

----------------------------------------------------------------------------
(* The reduction block on its own: ConvertToReductionOperator builds it   *)
(* from a body, then it is run operation by operation on (elem, acc).     *)

BlockInstrs ==
  [op : { "add" }, x : 0 .. 2, y : 0 .. 2, z : 0 .. 2] \cup { MaxBody[1] }

Bodies == UNION { [1 .. n -> BlockInstrs] : n \in 0 .. MaxBodyLen }

InitBlock ==
  /\ \E body \in Bodies, elem \in Values, accumulator \in Values :
       /\ xop = [kind |-> "body", body |-> body]
       /\ rt = [elem |-> elem, acc |-> accumulator]
  /\ IdleLoops
  /\ IdleBlock
  /\ IdleDriver

Transplant ==
  /\ pc = "ir"
  /\ xop.kind = "body"
  /\ nest' = [kind |-> "block",
              reduction_operator |-> ConvertToReductionOperator(xop.body)]
  /\ pc' = "block"
  /\ bpc' = 1
  /\ bst' = BlockStart
  /\ UNCHANGED <<xop, rt, outer_done, cur_outer, inner_done, acc, out_buf,
                 store_count, loads, fed>>
  /\ UNCHANGED driverVars

BlockStep ==
  /\ pc = "block"
  /\ bpc <= Len(nest.reduction_operator)
  /\ bst' = ExecBlockOp(bst, nest.reduction_operator[bpc], << rt.elem, rt.acc >>)
  /\ bpc' = bpc + 1
  /\ UNCHANGED loopVars
  /\ UNCHANGED driverVars

NextBlock ==
  \/ Transplant
  \/ BlockStep

SpecBlock == InitBlock /\ [][NextBlock]_vars

(* value of body parameter p after the first k operations of the body,    *)
(* when parameter 0 is the element cell and parameters 1 and 2 are both   *)
(* the accumulator cell                                                    *)
SameCell(p, q) == (p = 0) <=> (q = 0)

RECURSIVE ParamAfter(_, _, _, _, _)
ParamAfter(body, k, p, elem, accumulator) ==
  IF k = 0 THEN (IF p = 0 THEN elem ELSE accumulator)
  ELSE IF SameCell(body[k].z, p)
       THEN LET a == ParamAfter(body, k - 1, body[k].x, elem, accumulator)
                b == ParamAfter(body, k - 1, body[k].y, elem, accumulator)
            IN IF body[k].op = "add" THEN a + b ELSE Max2(a, b)
       ELSE ParamAfter(body, k - 1, p, elem, accumulator)

Combine(o, a, b) == IF o = "add" THEN a + b ELSE Max2(a, b)

(* C10: the block stores its two arguments into two fresh cells, runs a   *)
(* copy of every operation of the body with (element, accumulator-in,     *)
(* result-out) mapped to (element cell, accumulator cell, accumulator     *)
(* cell) and yields the accumulator cell: f(elem, acc) for a body writing *)
(* result-out = f(element, accumulator-in), acc for an empty body, and a  *)
(* write to result-out is read back through accumulator-in.               *)
C10_TransplantedBlock ==
  (xop.kind = "body" /\ pc = "block") =>
    LET body == xop.body
        block == nest.reduction_operator
        n == Len(body)
    IN /\ Len(block) = n + 6
       /\ bpc > 4 => /\ DOMAIN bst.cells = { elem_buf, acc_buf }
                     /\ bpc = 5 => /\ bst.cells[elem_buf] = rt.elem
                                   /\ bst.cells[acc_buf] = rt.acc
       /\ (bpc > 4 /\ bpc <= n + 5) =>
            /\ bst.cells[elem_buf] = ParamAfter(body, bpc - 5, 0, rt.elem, rt.acc)
            /\ bst.cells[acc_buf] = ParamAfter(body, bpc - 5, 1, rt.elem, rt.acc)
            /\ ~bst.done
       /\ bst.done =>
            /\ bpc = n + 7
            /\ bst.ret = ParamAfter(body, n, 2, rt.elem, rt.acc)
            /\ n = 0 => bst.ret = rt.acc
            /\ (n = 1 /\ body[1].x = 0 /\ body[1].y = 1 /\ body[1].z = 2) =>
                 bst.ret = Combine(body[1].op, rt.elem, rt.acc)
            /\ (n = 2 /\ body[1].x = 0 /\ body[1].y = 1 /\ body[1].z = 2
                      /\ body[2].x = 0 /\ body[2].y = 1 /\ body[2].z = 2) =>
                 bst.ret = Combine(body[2].op, rt.elem,
                                   Combine(body[1].op, rt.elem, rt.acc))

(* add then max on (1, 1): the max reads the sum 2 back as accumulator-in *)
C10_Witness ==
  /\ xop.kind = "body" /\ pc = "block" /\ bst.done
  /\ xop.body = << SumBody[1], MaxBody[1] >>
  /\ rt.elem = 1 /\ rt.acc = 1 /\ bst.ret = 2

----------------------------------------------------------------------------
(* The pass: runOnFunction declares xla_lhlo.reduce and                    *)
(* xla_lhlo.reduce_window illegal and applies the two patterns through     *)
(* applyPartialConversion, which legalizes the illegal operations one by   *)
(* one, discards every rewrite when one of them cannot be legalized, and   *)
(* whose failure makes the pass signal failure.                            *)

ReduceSample(num_out) ==
  [kind |-> "reduce", num_out |-> num_out, operand_shape |-> << 2, 2 >>,
   dimensions |-> << 1 >>, body |-> SumBody]

WindowSample(has_window_strides, has_padding, has_dilations) ==
  [kind |-> "reduce_window", operand_shape |-> << 2, 2 >>, out_shape |-> << 1, 1 >>,
   window_dimensions |-> << 2, 2 >>,
   has_window_strides |-> has_window_strides,
   window_strides |-> IF has_window_strides THEN << 2, 2 >> ELSE << >>,
   has_padding |-> has_padding,
   padding |-> IF has_padding THEN << << 0, 1 >>, << 0, 1 >> >> ELSE << >>,
   has_dilations |-> has_dilations,
   body |-> MaxBody]

OtherOp == [kind |-> "other"]

SampleOps ==
  { ReduceSample(n) : n \in 0 .. 2 }
  \cup { WindowSample(s, q, FALSE) : s, q \in BOOLEAN }
  \cup { WindowSample(TRUE, TRUE, TRUE) }
  \cup { OtherOp }

IsIllegal(op) == op.kind \in { "reduce", "reduce_window" }

Init ==
  /\ \E n \in 1 .. MaxOps : \E f \in [1 .. n -> SampleOps] :
       /\ func = f
       /\ func0 = f
  /\ driver = "scanning"
  /\ cur = 0
  /\ diags = {}
  /\ pass_failed = FALSE
  /\ IdleOp
  /\ IdleLoops
  /\ IdleBlock

IllegalAfter(i) == { j \in (i + 1) .. Len(func) : IsIllegal(func[j]) }

(* the driver finds the next illegal operation *)
ScanNext ==
  /\ driver = "scanning"
  /\ IllegalAfter(cur) # {}
  /\ cur' = CHOOSE j \in IllegalAfter(cur) : \A l \in IllegalAfter(cur) : j <= l
  /\ driver' = "converting"
  /\ UNCHANGED <<func, func0, diags, pass_failed>>
  /\ UNCHANGED <<loopVars, blockVars>>

(* no illegal operation is left: applyPartialConversion succeeds *)
ScanDone ==
  /\ driver = "scanning"
  /\ IllegalAfter(cur) = {}
  /\ driver' = "all_converted"
  /\ UNCHANGED <<func, func0, cur, diags, pass_failed>>
  /\ UNCHANGED <<loopVars, blockVars>>

Emitted(result) == { [op |-> cur, severity |-> e.severity, msg |-> e.msg] : e \in result.errors }

(* the outcome of a pattern applied to the operation at cur: the rewrite   *)
(* replaces it, or the conversion fails, every rewrite is discarded and    *)
(* the pass signals failure, or the process dies in the pattern            *)
Legalize(result) ==
  /\ diags' = diags \cup Emitted(result)
  /\ CASE result.status = "success" ->
            /\ func' = [func EXCEPT ![cur] = [kind |-> "loops", ir |-> result.ir]]
            /\ driver' = "scanning"
            /\ pass_failed' = pass_failed
       [] result.status = "failure" ->
            /\ func' = func0
            /\ driver' = "conversion_failed"
            /\ pass_failed' = TRUE
       [] OTHER ->
            /\ func' = func
            /\ driver' = "aborted"
            /\ pass_failed' = pass_failed
  /\ UNCHANGED <<func0, cur>>

ConvertReduce ==
  /\ driver = "converting"
  /\ func[cur].kind = "reduce"
  /\ Legalize(ReduceOpConverter_matchAndRewrite(func[cur]))
  /\ UNCHANGED <<loopVars, blockVars>>

ConvertReduceWindow ==
  /\ driver = "converting"
  /\ func[cur].kind = "reduce_window"
  /\ \E result \in ReduceWindowOpConverter_matchAndRewrite(func[cur]) : Legalize(result)
  /\ UNCHANGED <<loopVars, blockVars>>

Next ==
  \/ ScanNext
  \/ ScanDone
  \/ ConvertReduce
  \/ ConvertReduceWindow

Spec == Init /\ [][Next]_vars

Unsupported(op) == op.kind = "reduce" /\ op.num_out # 1

(* C7: a plain reduction whose number of outputs is not one is declined:  *)
(* it is never replaced or dropped, the driver never gets past it nor     *)
(* ends with everything converted, and once the pattern has failed on it  *)
(* the function is as it was before the pass and the pass has signalled   *)
(* failure.                                                                *)
C7_VariadicReduceDeclined ==
  driver # "idle" =>
    \A i \in 1 .. Len(func0) :
      Unsupported(func0[i]) =>
        /\ Len(func) = Len(func0)
        /\ func[i] = func0[i]
        /\ driver # "all_converted"
        /\ cur <= i
        /\ (driver \in { "scanning", "aborted" } => cur < i)
        /\ (driver = "conversion_failed" => (func = func0 /\ pass_failed))
        /\ (pass_failed => driver = "conversion_failed")

(* the pattern failed on a two-output reduction that follows a converted one *)
C7_Witness ==
  /\ driver = "conversion_failed" /\ pass_failed /\ cur = 2
  /\ func0[1] = ReduceSample(1) /\ func0[2] = ReduceSample(2)
  /\ func = func0

(* C8: the driver is scanning or converting until it ends in one of two   *)
(* states: all converted, with no reduction left, or conversion failed,   *)
(* which is the state in which the pass has signalled failure.            *)
C8_TwoTerminalStates ==
  driver # "idle" =>
    /\ driver \in { "scanning", "converting", "all_converted", "conversion_failed" }
    /\ driver = "all_converted" => \A i \in 1 .. Len(func) : ~IsIllegal(func[i])
    /\ (driver = "conversion_failed") <=> pass_failed

MissingAttr(op) ==
  op.kind = "reduce_window" /\ (~op.has_window_strides \/ ~op.has_padding)

(* C9: the rewrite of a windowed reduction without window strides or      *)
(* padding attaches an error to it, replaces it by the loop nest and      *)
(* succeeds.                                                               *)
C9_MissingAttrStillLowers ==
  [][(driver = "converting" /\ MissingAttr(func[cur])) =>
       /\ \E d \in diags' : d.op = cur /\ d.severity = "error"
       /\ func'[cur].kind = "loops"
       /\ driver' = "scanning"]_vars

----------------------------------------------------------------------------
(* ReduceOpConverter::CreateReduceOpInNestedParallelLoops statement by     *)
(* statement: the set of reducing dimensions is filled entry by entry,     *)
(* the bounds are partitioned axis by axis, the loops are created, and     *)
(* the operand indices are rebuilt axis by axis from the two cursors.      *)

BuilderStart ==
  [kind |-> "building", reducing_dims |-> {}, k |-> 0, i |-> 0, b |-> NoBounds,
   has_outer |-> FALSE, out_indices |-> <<>>, outer_it |-> 0, inner_it |-> 0,
   indices |-> <<>>]

(* entries of a dimensions attribute: axes, negative and too large        *)
(* entries, the two reserved keys, and entries that do not fit an int     *)
DimEntries ==
  (-1 .. MaxRank) \cup DenseSetReservedKeys \cup { IntMod, IntMod + 1 }

SeqsUpTo(S, n) == UNION { [1 .. m -> S] : m \in 0 .. n }

InitPartition ==
  /\ \E operand_shape \in SeqsUpTo({ kDynamicSize, MaxExtent }, MaxRank),
        dimensions \in SeqsUpTo(DimEntries, MaxDims) :
       /\ xop = [kind |-> "reduce", num_out |-> 1, operand_shape |-> operand_shape,
                 dimensions |-> dimensions, body |-> SumBody]
       /\ rt = [extents |-> [i \in 1 .. Len(operand_shape) |-> MaxExtent],
                out_extents |-> <<>>, operand |-> NoBuf, init |-> 0]
  /\ nest = BuilderStart /\ pc = "reducing_dims"
  /\ outer_done = {} /\ cur_outer = <<>> /\ inner_done = {} /\ acc = 0
  /\ out_buf = NoBuf /\ store_count = NoBuf /\ loads = {} /\ fed = NoFed
  /\ IdleBlock
  /\ IdleDriver

BuilderStep(next_nest, next_pc) ==
  /\ xop.kind = "reduce"
  /\ nest' = next_nest
  /\ pc' = next_pc
  /\ UNCHANGED <<xop, rt, outer_done, cur_outer, inner_done, acc, out_buf,
                 store_count, loads, fed>>
  /\ UNCHANGED <<blockVars, driverVars>>

(* reducing_dims.insert(rdim.getSExtValue()): inserting a reserved key    *)
(* fails the container's assertion where assertions are compiled in       *)
InsertReducingDim ==
  /\ pc = "reducing_dims"
  /\ nest.k < Len(xop.dimensions)
  /\ LET rdim == IntCast(xop.dimensions[nest.k + 1])
     IN \/ BuilderStep([nest EXCEPT !.reducing_dims = @ \cup { rdim }, !.k = @ + 1], pc)
        \/ /\ rdim \in DenseSetReservedKeys
           /\ BuilderStep(nest, "aborted")

ReducingDimsDone ==
  /\ pc = "reducing_dims"
  /\ nest.k = Len(xop.dimensions)
  /\ BuilderStep(nest, "partition")

(* one iteration of the loop over llvm::enumerate(operand_shape) *)
PartitionDim ==
  /\ pc = "partition"
  /\ nest.i < Len(xop.operand_shape)
  /\ BuilderStep([nest EXCEPT
       !.b = PartitionDims(SubSeq(xop.operand_shape, 1, nest.i + 1),
                           nest.reducing_dims, nest.i, nest.b),
       !.i = @ + 1], pc)

(* the loops, the output indices and the store, then the two cursors *)
CreateLoops ==
  /\ pc = "partition"
  /\ nest.i = Len(xop.operand_shape)
  /\ LET has_outer == OuterNeeded(nest.b.parallel_lower)
     IN BuilderStep([nest EXCEPT
          !.has_outer = has_outer,
          !.out_indices = OutIndices(has_outer, Len(nest.b.parallel_lower)),
          !.outer_it = 0, !.inner_it = 0, !.i = 0], "indices")

(* one iteration of the loop that pushes *inner_ivs_it++ or *outer_ivs_it++ *)
ReconstructIndex ==
  /\ pc = "indices"
  /\ nest.i < Len(xop.operand_shape)
  /\ LET r == ReconstructIndices(nest.i + 1, nest.reducing_dims, nest.has_outer,
                                 Len(nest.b.parallel_lower), Len(nest.b.reduce_lower),
                                 nest.i, << nest.outer_it, nest.inner_it >>,
                                 nest.indices)
     IN BuilderStep([nest EXCEPT !.indices = r.indices, !.outer_it = r.outer_it,
                                 !.inner_it = r.inner_it, !.i = @ + 1], pc)

ReconstructDone ==
  /\ pc = "indices"
  /\ nest.i = Len(xop.operand_shape)
  /\ BuilderStep(nest, "built")

NextPartition ==
  \/ InsertReducingDim
  \/ ReducingDimsDone
  \/ PartitionDim
  \/ CreateLoops
  \/ ReconstructIndex
  \/ ReconstructDone

SpecPartition == InitPartition /\ [][NextPartition]_vars

----------------------------------------------------------------------------
(* What the partition and the reconstruction are to be, for a set of       *)
(* reduced axes                                                            *)

BoundOf(a) == GetStaticOrDynamicDim("operand", a, xop.operand_shape[a + 1])
UppersOf(axes) == LET sq == SeqOfSet(axes) IN [p \in 1 .. Len(sq) |-> BoundOf(sq[p])]
ConstantsOf(axes, n) == [p \in 1 .. Cardinality(axes) |-> ConstantIndexOp(n)]

(* both lists in axis order, one (0, extent, 1) entry per axis *)
ListsPartition(reduced) ==
  /\ nest.b.reduce_upper = UppersOf(reduced)
  /\ nest.b.parallel_upper = UppersOf(Axes \ reduced)
  /\ nest.b.reduce_lower = ConstantsOf(reduced, 0)
  /\ nest.b.parallel_lower = ConstantsOf(Axes \ reduced, 0)
  /\ nest.b.reduce_step = ConstantsOf(reduced, 1)
  /\ nest.b.parallel_step = ConstantsOf(Axes \ reduced, 1)

(* the position of axis a among the axes of S *)
PositionIn(S, a) == Cardinality({ x \in S : x < a })

IndicesInvert(reduced) ==
  /\ Len(nest.indices) = Len(xop.operand_shape)
  /\ \A a \in Axes :
       nest.indices[a + 1] = IF a \in reduced
                             THEN InnerIv(PositionIn(reduced, a))
                             ELSE OuterIv(PositionIn(Axes \ reduced, a))

EachIvOnce ==
  /\ \A p \in 0 .. Len(nest.b.reduce_lower) - 1 :
       Cardinality({ j \in 1 .. Len(nest.indices) : nest.indices[j] = InnerIv(p) }) = 1
  /\ \A p \in 0 .. Len(nest.b.parallel_lower) - 1 :
       Cardinality({ j \in 1 .. Len(nest.indices) : nest.indices[j] = OuterIv(p) }) = 1

CursorsSafe ==
  /\ nest.inner_it <= Len(nest.b.reduce_lower)
  /\ nest.outer_it <= Len(nest.b.parallel_lower)
  /\ ~nest.has_outer => nest.outer_it = 0
  /\ \A j \in 1 .. Len(nest.indices) : nest.indices[j] # InvalidValue

Building == xop.kind = "reduce" /\ (nest.kind = "building" \/ pc = "aborted")

(* C11: for every operand rank and every dimensions attribute, with       *)
(* duplicate and out-of-range entries, the rewrite builds the two bound    *)
(* lists in axis order with one (0, extent, 1) entry per axis, the axes    *)
(* named by the attribute in the reduced list and the others in the kept   *)
(* list; the rebuilt operand indices are the positional inverse, each      *)
(* induction variable is used once, no cursor passes its end and the       *)
(* outer cursor is not read without an outer loop.                         *)
C11_PartitionInverse ==
  Building =>
    /\ pc # "aborted"
    /\ pc \in { "indices", "built" } => (ListsPartition(ReducedAxes) /\ CursorsSafe)
    /\ pc = "built" => (IndicesInvert(ReducedAxes) /\ EachIvOnce)

(* the same with the reduced axes read off the set the code has built:    *)
(* whenever the rewrite gets through, lists and indices are inverse to    *)
(* each other and agree with CreateReduceOpInNestedParallelLoops taken as *)
(* a whole                                                                 *)
BuiltListsInverse ==
  (Building /\ pc # "aborted") =>
    LET reduced == Axes \cap nest.reducing_dims
        whole == ReduceOpConverter_CreateReduceOpInNestedParallelLoops(xop)
    IN /\ pc \in { "indices", "built" } => (ListsPartition(reduced) /\ CursorsSafe)
       /\ pc = "built" =>
            /\ IndicesInvert(reduced) /\ EachIvOnce
            /\ nest.outer_it = Len(nest.b.parallel_lower)
            /\ nest.inner_it = Len(nest.b.reduce_lower)
            /\ nest.indices = whole.indices /\ nest.out_indices = whole.out_indices
            /\ nest.has_outer = whole.has_outer
            /\ nest.b.reduce_upper = whole.inner_upper
            /\ nest.b.parallel_upper = whole.outer_upper
       /\ nest.reducing_dims \subseteq ReducingDims(xop.dimensions)
       /\ (\A j \in 1 .. Len(xop.dimensions) : xop.dimensions[j] = IntCast(xop.dimensions[j]))
            => reduced \cap (0 .. nest.i - 1) \subseteq ReducedAxes

(* the dimensions attributes whose entries fit an int and are no reserved  *)
(* key: on these the partition is the one the attribute names              *)
PlainDimensions ==
  \A j \in 1 .. Len(xop.dimensions) :
    /\ xop.dimensions[j] = IntCast(xop.dimensions[j])
    /\ xop.dimensions[j] \notin DenseSetReservedKeys

PartitionInverseOnPlainDimensions == PlainDimensions => C11_PartitionInverse

====
